---- MODULE Spec2Model ----
(***************************************************************************)
(* memlimit (src/src/main.rs): parse_byte_amount, the byte-size parser,     *)
(* and main, the watchdog loop that polls the process table, expands the   *)
(* watched child into its hierarchy, sums a memory metric and kills the    *)
(* child when the sum exceeds the parsed threshold.                        *)
(*                                                                         *)
(* Machine integers (usize, u64) are kept at their real widths.  TLC's own *)
(* integers are 32 bits wide, so a machine integer is a little-endian      *)
(* sequence of base-256 limbs without high zero limbs (zero is << >>).     *)
(* Strings are sequences of one-character strings.                         *)
(***************************************************************************)
EXTENDS Integers, Sequences, FiniteSets, TLC

\* ------------------------------------------------------------ bounds

\* Process ids of the process table are 1..MaxPid.
MaxPid == 3
\* The parser is run on every string over Chars of at most MaxLen characters.
MaxLen == 3

\* ------------------------------------------------- machine integers

Radix == 256

RECURSIVE Norm(_)
Norm(a) ==
    IF a = << >> THEN << >>
    ELSE IF a[Len(a)] = 0 THEN Norm(SubSeq(a, 1, Len(a) - 1))
    ELSE a

RECURSIVE FromInt(_)
FromInt(n) == IF n = 0 THEN << >> ELSE <<n % Radix>> \o FromInt(n \div Radix)

RECURSIVE AddC(_, _, _)
AddC(a, b, c) ==
    IF a = << >> /\ b = << >> THEN FromInt(c)
    ELSE LET x == IF a = << >> THEN 0 ELSE Head(a)
             y == IF b = << >> THEN 0 ELSE Head(b)
             s == x + y + c
         IN  <<s % Radix>> \o AddC(IF a = << >> THEN << >> ELSE Tail(a),
                                   IF b = << >> THEN << >> ELSE Tail(b),
                                   s \div Radix)

\* a + b, exact
BAdd(a, b) == Norm(AddC(a, b, 0))

RECURSIVE MulSmallC(_, _, _)
MulSmallC(a, k, c) ==
    IF a = << >> THEN FromInt(c)
    ELSE LET s == Head(a) * k + c
         IN  <<s % Radix>> \o MulSmallC(Tail(a), k, s \div Radix)

\* a * k + c for small k and c, exact
MulSmall(a, k, c) == Norm(MulSmallC(a, k, c))

ShiftLimb(a) == IF a = << >> THEN << >> ELSE <<0>> \o a

RECURSIVE BMul(_, _)
\* a * b, exact
BMul(a, b) ==
    IF b = << >> THEN << >>
    ELSE BAdd(MulSmall(a, Head(b), 0), ShiftLimb(BMul(a, Tail(b))))

RECURSIVE BPow(_, _)
\* b ^ e, exact
BPow(b, e) == IF e = 0 THEN <<1>> ELSE BMul(b, BPow(b, e - 1))

RECURSIVE LessFrom(_, _, _)
LessFrom(a, b, i) ==
    IF i = 0 THEN FALSE
    ELSE IF a[i] # b[i] THEN a[i] < b[i]
    ELSE LessFrom(a, b, i - 1)

\* a < b
BLess(a, b) ==
    IF Len(a) # Len(b) THEN Len(a) < Len(b) ELSE LessFrom(a, b, Len(a))

BLeq(a, b) == ~BLess(b, a)

\* a < 2^bits: the value is representable in an unsigned integer of that width
Fits(a, bits) == Len(a) <= bits \div 8

\* a mod 2^bits: an `as` cast to an unsigned integer of that width
Truncate(a, bits) ==
    Norm(SubSeq(a, 1, IF Len(a) < bits \div 8 THEN Len(a) ELSE bits \div 8))

\* Option<T>
None == [some |-> FALSE]
Some(v) == [some |-> TRUE, val |-> v]

\* mutant: the product wraps at the width
checked_mul_wrapping(a, b, bits) == Some(Truncate(BMul(a, b), bits))

\* checked_mul at the width
checked_mul(a, b, bits) ==
    LET p == BMul(a, b) IN IF Fits(p, bits) THEN Some(p) ELSE None

\* mutant: the exponent is one too small
checked_pow_one_less(b, e, bits) ==
    LET p == BPow(b, e - 1) IN IF Fits(p, bits) THEN Some(p) ELSE None

\* checked_pow at the width
checked_pow(b, e, bits) ==
    LET p == BPow(b, e) IN IF Fits(p, bits) THEN Some(p) ELSE None

\* checked_add at the width
checked_add(a, b, bits) ==
    LET s == BAdd(a, b) IN IF Fits(s, bits) THEN Some(s) ELSE None

\* ---------------------------------------------------------- decimal

Digits == <<"0", "1", "2", "3", "4", "5", "6", "7", "8", "9">>

DigitChars == {Digits[i] : i \in 1..10}

\* char::to_digit(10) of a decimal digit
to_digit(c) == (CHOOSE i \in 1..10 : Digits[i] = c) - 1

RECURSIVE DivFrom(_, _, _, _)
\* long division of limbs 1..i of a by a small d, from the top limb down,
\* r the remainder carried in from the limbs above
DivFrom(a, d, i, r) ==
    IF i = 0 THEN [q |-> << >>, r |-> r]
    ELSE LET cur == r * Radix + a[i]
             rest == DivFrom(a, d, i - 1, cur % d)
         IN  [q |-> rest.q \o <<cur \div d>>, r |-> rest.r]

\* quotient and remainder of a by a small d
DivSmall(a, d) ==
    LET qr == DivFrom(a, d, Len(a), 0) IN [q |-> Norm(qr.q), r |-> qr.r]

RECURSIVE DecDigits(_)
DecDigits(a) ==
    IF a = << >> THEN << >>
    ELSE LET qr == DivSmall(a, 10)
         IN  DecDigits(qr.q) \o <<Digits[qr.r + 1]>>

\* Display of an unsigned integer ({mem}, {} in println!; str(n))
to_string(a) == IF a = << >> THEN <<"0">> ELSE DecDigits(a)

\* ------------------------------------------------- parse_byte_amount

\* The characters c of the model with c.is_alphabetic()
Alphabetic ==
    {"B", "K", "M", "G", "T", "P", "E", "Z", "Y", "R", "Q", "i",
     "b", "k", "h", "e", "l", "o"}

is_alphabetic(c) == c \in Alphabetic

\* The characters of the model with c.is_whitespace()
WhiteSpace == {" ", "\t"}

RECURSIVE trim_start(_)
trim_start(s) ==
    IF s # << >> /\ Head(s) \in WhiteSpace THEN trim_start(Tail(s)) ELSE s

RECURSIVE trim_end(_)
trim_end(s) ==
    IF s # << >> /\ s[Len(s)] \in WhiteSpace
    THEN trim_end(SubSeq(s, 1, Len(s) - 1))
    ELSE s

trim(s) == trim_end(trim_start(s))

\* mutant: every character is a run of its own
RunLengthOne(s, k) == 1

RECURSIVE RunLength(_, _)
\* length of the longest prefix of s whose characters all have key k
RunLength(s, k) ==
    IF s = << >> \/ is_alphabetic(Head(s)) # k THEN 0
    ELSE 1 + RunLength(Tail(s), k)

RECURSIVE chunk_by(_)
\* s.chars().chunk_by(|c| c.is_alphabetic()), each group collected
chunk_by(s) ==
    IF s = << >> THEN << >>
    ELSE LET k == is_alphabetic(Head(s))
             n == RunLength(s, k)
         IN  <<[is_alpha |-> k, group |-> SubSeq(s, 1, n)]>>
                 \o chunk_by(SubSeq(s, n + 1, Len(s)))

\* Result<usize, ParseByteError>
Ok(v) == [ok |-> TRUE, val |-> v]
ErrEmpty == [ok |-> FALSE, err |-> "Empty"]
ErrAlphaBeforeAmount == [ok |-> FALSE, err |-> "AlphaBeforeAmount"]
ErrParseIntError(kind) == [ok |-> FALSE, err |-> "ParseIntError", kind |-> kind]
ErrUnknownPrefix(text) == [ok |-> FALSE, err |-> "UnknownPrefix", text |-> text]
ErrUnitOverflow(text) == [ok |-> FALSE, err |-> "UnitOverflow", text |-> text]
ErrAmountOverflow(amount, text) ==
    [ok |-> FALSE, err |-> "AmountOverflow", amount |-> amount, text |-> text]
ErrUnexpectedEnd(text) == [ok |-> FALSE, err |-> "UnexpectedEnd", text |-> text]

RECURSIVE from_digits(_, _, _)
\* the digit loop of usize::from_str_radix(_, 10)
from_digits(digits, result, bits) ==
    IF digits = << >> THEN Ok(result)
    ELSE LET c == Head(digits)
             mul == checked_mul(result, <<10>>, bits)
         IN  IF c \notin DigitChars THEN ErrParseIntError("InvalidDigit")
             ELSE IF ~mul.some THEN ErrParseIntError("PosOverflow")
             ELSE LET add == checked_add(mul.val, FromInt(to_digit(c)), bits)
                  IN  IF ~add.some THEN ErrParseIntError("PosOverflow")
                      ELSE from_digits(Tail(digits), add.val, bits)

\* mutant: a minus sign is skipped like a plus sign
parse_usize_signed(src, bits) ==
    IF src = << >> THEN ErrParseIntError("Empty")
    ELSE IF src = <<"+">> \/ src = <<"-">> THEN ErrParseIntError("InvalidDigit")
    ELSE from_digits(IF Head(src) \in {"+", "-"} THEN Tail(src) ELSE src, << >>, bits)

\* group.parse::<usize>()
parse_usize(src, bits) ==
    IF src = << >> THEN ErrParseIntError("Empty")
    ELSE IF src = <<"+">> \/ src = <<"-">> THEN ErrParseIntError("InvalidDigit")
    ELSE from_digits(IF Head(src) = "+" THEN Tail(src) ELSE src, << >>, bits)

\* the unit table: the (base, pow) of a unit, or None
unit_table(group) ==
    CASE group = <<"B">> -> Some([base |-> 1, pow |-> 1])
      [] group \in {<<"K">>, <<"K", "B">>} -> Some([base |-> 1000, pow |-> 1])
      [] group \in {<<"K", "i">>, <<"K", "i", "B">>} -> Some([base |-> 1024, pow |-> 1])
      [] group \in {<<"M">>, <<"M", "B">>} -> Some([base |-> 1000, pow |-> 2])
      [] group \in {<<"M", "i">>, <<"M", "i", "B">>} -> Some([base |-> 1024, pow |-> 2])
      [] group \in {<<"G">>, <<"G", "B">>} -> Some([base |-> 1000, pow |-> 3])
      [] group \in {<<"G", "i">>, <<"G", "i", "B">>} -> Some([base |-> 1024, pow |-> 3])
      [] group \in {<<"T">>, <<"T", "B">>} -> Some([base |-> 1000, pow |-> 4])
      [] group \in {<<"T", "i">>, <<"T", "i", "B">>} -> Some([base |-> 1024, pow |-> 4])
      [] group \in {<<"P">>, <<"P", "B">>} -> Some([base |-> 1000, pow |-> 5])
      [] group \in {<<"P", "i">>, <<"P", "i", "B">>} -> Some([base |-> 1024, pow |-> 5])
      [] group \in {<<"E">>, <<"E", "B">>} -> Some([base |-> 1000, pow |-> 6])
      [] group \in {<<"E", "i">>, <<"E", "i", "B">>} -> Some([base |-> 1024, pow |-> 6])
      [] group \in {<<"Z">>, <<"Z", "B">>} -> Some([base |-> 1000, pow |-> 7])
      [] group \in {<<"Z", "i">>, <<"Z", "i", "B">>} -> Some([base |-> 1024, pow |-> 7])
      [] group \in {<<"Y">>, <<"Y", "B">>} -> Some([base |-> 1000, pow |-> 8])
      [] group \in {<<"Y", "i">>, <<"Y", "i", "B">>} -> Some([base |-> 1024, pow |-> 8])
      [] group \in {<<"R">>, <<"R", "B">>} -> Some([base |-> 1000, pow |-> 9])
      [] group \in {<<"R", "i">>, <<"R", "i", "B">>} -> Some([base |-> 1024, pow |-> 9])
      [] group \in {<<"Q">>, <<"Q", "B">>} -> Some([base |-> 1000, pow |-> 10])
      [] group \in {<<"Q", "i">>, <<"Q", "i", "B">>} -> Some([base |-> 1024, pow |-> 10])
      [] OTHER -> None

RECURSIVE join(_)
\* groups.map(|(_, s)| s).collect::<Vec<String>>().join("")
join(groups) ==
    IF groups = << >> THEN << >> ELSE Head(groups).group \o join(Tail(groups))

\* mutant: what follows the unit is looked at before the unit
apply_unit_rest_first(amount, group, rest, bits) ==
    LET unit == unit_table(group)
        multiplier == checked_pow(FromInt(unit.val.base), unit.val.pow, bits)
        product == checked_mul(amount, multiplier.val, bits)
    IN  IF join(rest) # << >> THEN ErrUnexpectedEnd(join(rest))
        ELSE IF ~unit.some THEN ErrUnknownPrefix(group)
        ELSE IF ~multiplier.some THEN ErrUnitOverflow(group)
        ELSE IF ~product.some THEN ErrAmountOverflow(amount, group)
        ELSE Ok(product.val)

\* the multiplication of the amount by the unit, and the check of the rest
apply_unit(amount, group, rest, bits) ==
    LET unit == unit_table(group)
        multiplier == checked_pow(FromInt(unit.val.base), unit.val.pow, bits)
        product == checked_mul(amount, multiplier.val, bits)
    IN  IF ~unit.some THEN ErrUnknownPrefix(group)
        ELSE IF ~multiplier.some THEN ErrUnitOverflow(group)
        ELSE IF ~product.some THEN ErrAmountOverflow(amount, group)
        ELSE IF join(rest) = << >> THEN Ok(product.val)
        ELSE ErrUnexpectedEnd(join(rest))

\* fn parse_byte_amount(s: &str) -> Result<usize, ParseByteError>, for a
\* target whose usize is `bits` wide.  A second group that is not alphabetic
\* fails the assert!: the result is the panic.
parse_byte_amount(s, bits) ==
    LET groups == chunk_by(trim(s))
        amount == parse_usize(groups[1].group, bits)
    IN  IF groups = << >> THEN ErrEmpty
        ELSE IF groups[1].is_alpha THEN ErrAlphaBeforeAmount
        ELSE IF ~amount.ok THEN amount
        ELSE IF Len(groups) = 1 THEN Ok(amount.val)
        ELSE IF ~groups[2].is_alpha THEN [ok |-> FALSE, err |-> "panic"]
        ELSE apply_unit(amount.val, groups[2].group,
                        SubSeq(groups, 3, Len(groups)), bits)

\* --------------------------------------------------------- the program

VARIABLES
    usize_bits,      \* the width of usize on the target the program is built for
    cli,             \* the command line: the amount string and the two flags
    pc,              \* the position of main
    parsed,          \* the result of the value parser of `amount`
    args,            \* Args after Args::parse()
    command,         \* the child: "none", "spawned", "waited"
    pid,             \* the child's process id (0: no child yet)
    sys,             \* the process snapshot held by System
    hierarchy_pids,  \* list of process + childrens
    mem,             \* the sum of the cycle
    watchdog,        \* the loop: "Idle", "Running", "Exceeded", "ChildGone"
    kills,           \* the process ids sent a termination request, in order
    stdout,          \* the lines printed
    exit_status,     \* the child's ExitStatus::code() as returned by wait()
    exit_code,       \* the program's own exit code (-1: still running)
    last_cycle_pids, \* history: what hierarchy_pids held when the last cycle ended
    kill_outcome,    \* what command.kill() met and returned, once it was called
    passes           \* history: the passes the inner loop made in this cycle

vars == <<usize_bits, cli, pc, parsed, args, command, pid, sys, hierarchy_pids,
          mem, watchdog, kills, stdout, exit_status, exit_code, last_cycle_pids,
          kill_outcome, passes>>

Pids == 1..MaxPid

\* The process id the operating system gives the child
ChildPid == 1

\* The (resident, virtual) sizes a process of the model may have: 2 and 3
\* bytes, and 3 bytes and 2^32 bytes
ProcessSizes ==
    {[memory |-> <<2>>, virtual_memory |-> <<3>>],
     [memory |-> <<3>>, virtual_memory |-> <<0, 0, 0, 0, 1>>]}

\* sysinfo::Process as the program reads it: parent(), memory(), virtual_memory()
Processes ==
    {[parent |-> p, memory |-> z.memory, virtual_memory |-> z.virtual_memory] :
        p \in {None} \cup {Some(q) : q \in Pids}, z \in ProcessSizes}

\* Every process table over Pids: sys.processes()
Snapshots == UNION {[D -> Processes] : D \in SUBSET Pids}

\* The snapshots a refresh may produce from snapshot s: the table is read
\* again after at most one process has exited, started or changed.  (The
\* first snapshot is any table, so every table is met by a running loop.)
Refreshed(s) ==
    {s} \cup {[q \in DOMAIN s \ {p} |-> s[q]] : p \in DOMAIN s}
        \cup {[q \in DOMAIN s \cup {p} |-> IF q = p THEN e ELSE s[q]] :
                p \in Pids, e \in Processes}

\* The amount strings main is run with: "5", and one string per parser error
MainAmounts ==
    {<<"5">>, << >>, <<"K">>, <<"-", "5">>, <<"5", "b">>, <<"5", "Q">>,
     <<"9", "9", "E">>, <<"5", "K", "5">>}

\* ExitStatus::code(): Some(code), or None for a child ended by a signal
ExitStatuses == {None} \cup {Some(c) : c \in {0, 1, 255, 256, -1}}

RECURSIVE IterationOrders(_)
\* the orders in which a HashMap with these keys may be iterated
IterationOrders(S) ==
    IF S = {} THEN {<< >>}
    ELSE UNION {{<<x>> \o q : q \in IterationOrders(S \ {x})} : x \in S}

Range(f) == {f[i] : i \in DOMAIN f}

Init ==
    /\ usize_bits \in {32, 64}
    /\ cli \in [amount : MainAmounts, virtual_mem : BOOLEAN, children : BOOLEAN]
    /\ pc = "parse"
    /\ parsed = None
    /\ args = None
    /\ command = "none"
    /\ pid = 0
    /\ sys = << >>
    /\ hierarchy_pids = {}
    /\ mem = << >>
    /\ watchdog = "Idle"
    /\ kills = << >>
    /\ stdout = << >>
    /\ exit_status = None
    /\ exit_code = -1
    /\ last_cycle_pids = {}
    /\ kill_outcome = None
    /\ passes = 0

\* mutant: a parser error is ignored and the amount defaults to 0
ArgsParseLenient ==
    /\ pc = "parse"
    /\ LET r == parse_byte_amount(cli.amount, usize_bits)
       IN  /\ parsed' = r
           /\ args' = [amount |-> IF r.ok THEN r.val ELSE << >>,
                       virtual_mem |-> cli.virtual_mem, children |-> cli.children]
    /\ pc' = "spawn"
    /\ UNCHANGED <<usize_bits, cli, kill_outcome, passes, command, pid, sys, hierarchy_pids, mem,
                   watchdog, kills, stdout, exit_status, exit_code,
                   last_cycle_pids>>

\* let args = Args::parse(): clap runs the value parser on the amount; an
\* error is printed and the program exits with clap's usage code
ArgsParse ==
    /\ pc = "parse"
    /\ LET r == parse_byte_amount(cli.amount, usize_bits)
       IN  /\ parsed' = r
           /\ IF r.ok
              THEN /\ args' = [amount |-> r.val, virtual_mem |-> cli.virtual_mem,
                               children |-> cli.children]
                   /\ pc' = "spawn"
                   /\ exit_code' = exit_code
              ELSE /\ args' = args
                   /\ pc' = "done"
                   /\ exit_code' = 2
    /\ UNCHANGED <<usize_bits, cli, kill_outcome, passes, command, pid, sys, hierarchy_pids, mem,
                   watchdog, kills, stdout, exit_status, last_cycle_pids>>

\* Command::new(..).spawn(), Pid::from_u32(command.id()), System::new_all(),
\* sys.refresh_all(), HashSet::new()
Spawn ==
    /\ pc = "spawn"
    /\ command' = "spawned"
    /\ pid' = ChildPid
    /\ sys' \in Snapshots
    /\ hierarchy_pids' = {}
    /\ watchdog' = "Running"
    /\ pc' = "loop"
    /\ UNCHANGED <<usize_bits, cli, kill_outcome, passes, parsed, args, mem, kills, stdout,
                   exit_status, exit_code, last_cycle_pids>>

\* mutant: the descendants are collected whatever args.children says
LoopHeadAlwaysExpand ==
    /\ pc = "loop"
    /\ IF pid \in DOMAIN sys
       THEN /\ hierarchy_pids' = hierarchy_pids \cup {pid}
            /\ pc' = "expand"
            /\ watchdog' = watchdog
       ELSE /\ hierarchy_pids' = hierarchy_pids
            /\ pc' = "wait"
            /\ watchdog' = "ChildGone"
    /\ last_cycle_pids' = {}
    /\ UNCHANGED <<usize_bits, cli, kill_outcome, passes, parsed, args, command, pid, sys, mem,
                   kills, stdout, exit_status, exit_code>>

\* mutant: the loop does not test that the root is in the snapshot
LoopHeadUnchecked ==
    /\ pc = "loop"
    /\ hierarchy_pids' = hierarchy_pids \cup {pid}
    /\ pc' = IF args.children THEN "expand" ELSE "sum"
    /\ last_cycle_pids' = {}
    /\ UNCHANGED <<usize_bits, cli, kill_outcome, passes, parsed, args, command, pid, sys, mem,
                   watchdog, kills, stdout, exit_status, exit_code>>

\* Command::new(..).spawn().unwrap() when the command cannot be started:
\* the panic ends the program with code 101
SpawnFails ==
    /\ pc = "spawn"
    /\ pc' = "done"
    /\ exit_code' = 101
    /\ UNCHANGED <<usize_bits, cli, kill_outcome, passes, parsed, args, command, pid, sys,
                   hierarchy_pids, mem, watchdog, kills, stdout, exit_status,
                   last_cycle_pids>>

\* while sys.process(pid).is_some() { hierarchy_pids.insert(pid); ..
\* (the history of the previous cycle is kept up to this step only)
LoopHead ==
    /\ pc = "loop"
    /\ IF pid \in DOMAIN sys
       THEN /\ hierarchy_pids' = hierarchy_pids \cup {pid}
            /\ pc' = IF args.children THEN "expand" ELSE "sum"
            /\ watchdog' = watchdog
       ELSE /\ hierarchy_pids' = hierarchy_pids
            /\ pc' = "wait"
            /\ watchdog' = "ChildGone"
    /\ last_cycle_pids' = {}
    /\ UNCHANGED <<usize_bits, cli, kill_outcome, passes, parsed, args, command, pid, sys, mem,
                   kills, stdout, exit_status, exit_code>>

\* the ids, in iteration order, whose parent is in the set h
children_of(order, s, h) ==
    SelectSeq(order, LAMBDA id : s[id].parent.some /\ s[id].parent.val \in h)

\* mutant: one pass only, the inner loop is not repeated
ExpandPassOnce ==
    /\ pc = "expand"
    /\ \E order \in IterationOrders(DOMAIN sys) :
          hierarchy_pids' =
              hierarchy_pids \cup {order[i] : i \in
                  {j \in DOMAIN order :
                      /\ sys[order[j]].parent.some
                      /\ sys[order[j]].parent.val \in hierarchy_pids}}
    /\ pc' = "sum"
    /\ passes' = passes + 1
    /\ UNCHANGED <<usize_bits, cli, kill_outcome, parsed, args, command, pid, sys,
                   mem, watchdog, kills, stdout, exit_status, exit_code,
                   last_cycle_pids>>

\* mutant: the set is replaced by what the pass found, not extended
ExpandPassReplace ==
    /\ pc = "expand"
    /\ \E order \in IterationOrders(DOMAIN sys) :
          LET old_len == Cardinality(hierarchy_pids)
              found == {order[i] : i \in
                          {j \in DOMAIN order :
                              /\ sys[order[j]].parent.some
                              /\ sys[order[j]].parent.val \in hierarchy_pids}}
          IN  /\ hierarchy_pids' = found
              /\ pc' = IF old_len = Cardinality(found) THEN "sum" ELSE "expand"
    /\ passes' = passes + 1
    /\ UNCHANGED <<usize_bits, cli, kill_outcome, parsed, args, command, pid, sys,
                   mem, watchdog, kills, stdout, exit_status, exit_code,
                   last_cycle_pids>>

\* one pass of the inner loop: collect v, extend, compare the lengths
ExpandPass ==
    /\ pc = "expand"
    /\ \E order \in IterationOrders(DOMAIN sys) :
          LET old_len == Cardinality(hierarchy_pids)
              v == children_of(order, sys, hierarchy_pids)
              extended == hierarchy_pids \cup Range(v)
          IN  /\ hierarchy_pids' = extended
              /\ pc' = IF old_len = Cardinality(extended) THEN "sum" ELSE "expand"
    /\ passes' = passes + 1
    /\ UNCHANGED <<usize_bits, cli, kill_outcome, parsed, args, command, pid, sys,
                   mem, watchdog, kills, stdout, exit_status, exit_code,
                   last_cycle_pids>>

\* mutant: the flag selects the other metric
metric_other(process, virtual) ==
    IF virtual THEN process.memory ELSE process.virtual_memory

\* the metric of one process
metric(process, virtual) ==
    IF virtual THEN process.virtual_memory ELSE process.memory

RECURSIVE sum_u64(_, _, _, _)
\* .filter_map(..).sum::<u64>() over the table in iteration order
sum_u64(order, s, h, virtual) ==
    IF order = << >> THEN << >>
    ELSE LET rest == sum_u64(Tail(order), s, h, virtual)
         IN  IF Head(order) \in h
             THEN Truncate(BAdd(metric(s[Head(order)], virtual), rest), 64)
             ELSE rest

\* let mem = sys.processes().iter().filter_map(..).sum::<u64>()
Sum ==
    /\ pc = "sum"
    /\ \E order \in IterationOrders(DOMAIN sys) :
          mem' = sum_u64(order, sys, hierarchy_pids, args.virtual_mem)
    /\ pc' = "check"
    /\ UNCHANGED <<usize_bits, cli, kill_outcome, passes, parsed, args, command, pid, sys,
                   hierarchy_pids, watchdog, kills, stdout, exit_status,
                   exit_code, last_cycle_pids>>

\* mutant: the comparison is >= instead of >
exceeds_or_equal(m, amount, bits) == BLeq(amount, Truncate(m, bits))

\* mem as usize > args.amount
exceeds(m, amount, bits) == BLess(amount, Truncate(m, bits))

\* mutant: the two values are printed in each other's place
message_swapped(m, amount) ==
    <<"memlimit: memory usage = ", to_string(amount),
      " bytes, higher than limit of ", to_string(m), ", killed.">>

\* the line println! writes
message(m, amount) ==
    <<"memlimit: memory usage = ", to_string(m),
      " bytes, higher than limit of ", to_string(amount), ", killed.">>

\* What Child::kill() may return.  The child is not waited for before the
\* call, so a child that has exited is still unreaped.  A running child is
\* killed: Ok.  For a child that has already exited the result is that of
\* the platform's primitive: Ok where a signal to an unreaped process
\* succeeds or where the standard library maps the case to Ok, Err where
\* the primitive refuses an exited process and the library passes that on.
KillResults(already_exited) == IF already_exited THEN {"Ok", "Err"} ELSE {"Ok"}

\* mutant: every member of the hierarchy set is sent a termination request
KillHierarchy ==
    /\ pc = "check"
    /\ BLess(args.amount, Truncate(mem, usize_bits))
    /\ \E already_exited \in BOOLEAN :
          kill_outcome' = Some([already_exited |-> already_exited, result |-> "Ok"])
    /\ \E order \in IterationOrders(hierarchy_pids) : kills' = kills \o order
    /\ stdout' = Append(stdout, message(mem, args.amount))
    /\ watchdog' = "Exceeded"
    /\ pc' = "wait"
    /\ UNCHANGED <<usize_bits, cli, passes, parsed, args, command, pid, sys,
                   hierarchy_pids, mem, exit_status, exit_code, last_cycle_pids>>

\* if mem as usize > args.amount { command.kill().unwrap(); println!(..); break; }
\* with kill() returning Ok.  The child may have exited since the snapshot
\* was taken.
Kill ==
    /\ pc = "check"
    /\ exceeds(mem, args.amount, usize_bits)
    /\ \E already_exited \in BOOLEAN :
          /\ "Ok" \in KillResults(already_exited)
          /\ kill_outcome' = Some([already_exited |-> already_exited, result |-> "Ok"])
    /\ kills' = Append(kills, pid)
    /\ stdout' = Append(stdout, message(mem, args.amount))
    /\ watchdog' = "Exceeded"
    /\ pc' = "wait"
    /\ UNCHANGED <<usize_bits, cli, passes, parsed, args, command, pid, sys,
                   hierarchy_pids, mem, exit_status, exit_code, last_cycle_pids>>

\* if mem as usize > args.amount { command.kill().unwrap(); with kill()
\* returning Err: unwrap() panics, nothing is printed, the child is not
\* waited for and the program ends with the panic's code 101
KillFails ==
    /\ pc = "check"
    /\ exceeds(mem, args.amount, usize_bits)
    /\ \E already_exited \in BOOLEAN :
          /\ "Err" \in KillResults(already_exited)
          /\ kill_outcome' = Some([already_exited |-> already_exited, result |-> "Err"])
    /\ kills' = Append(kills, pid)
    /\ pc' = "done"
    /\ exit_code' = 101
    /\ UNCHANGED <<usize_bits, cli, passes, parsed, args, command, pid, sys,
                   hierarchy_pids, mem, watchdog, stdout, exit_status,
                   last_cycle_pids>>

\* mutant: hierarchy_pids is not cleared
RefreshNoClear ==
    /\ pc = "check"
    /\ ~BLess(args.amount, Truncate(mem, usize_bits))
    /\ sys' \in Refreshed(sys)
    /\ last_cycle_pids' = hierarchy_pids
    /\ mem' = << >>
    /\ passes' = 0
    /\ pc' = "loop"
    /\ UNCHANGED <<usize_bits, cli, kill_outcome, parsed, args, command, pid,
                   hierarchy_pids, watchdog, kills, stdout, exit_status, exit_code>>

\* otherwise: sys.refresh_processes(); hierarchy_pids.clear(); and the next cycle
Refresh ==
    /\ pc = "check"
    /\ ~exceeds(mem, args.amount, usize_bits)
    /\ sys' \in Refreshed(sys)
    /\ hierarchy_pids' = {}
    /\ last_cycle_pids' = hierarchy_pids
    /\ mem' = << >>
    /\ passes' = 0
    /\ pc' = "loop"
    /\ UNCHANGED <<usize_bits, cli, kill_outcome, parsed, args, command, pid,
                   watchdog, kills, stdout, exit_status, exit_code>>

\* ExitCode::from(e as u8)
as_u8(e) == e % 256

\* mutant: a child that ended without a code gives the shell's 128 + 9
WaitSignalCode ==
    /\ pc = "wait"
    /\ \E status \in ExitStatuses :
          /\ exit_status' = status
          /\ exit_code' = IF status.some THEN status.val % 256 ELSE 137
    /\ command' = "waited"
    /\ pc' = "done"
    /\ UNCHANGED <<usize_bits, cli, kill_outcome, passes, parsed, args, pid, sys,
                   hierarchy_pids, mem, watchdog, kills, stdout, last_cycle_pids>>

\* command.wait().unwrap().code().map(|e| ExitCode::from(e as u8))
\*     .unwrap_or(ExitCode::SUCCESS)
Wait ==
    /\ pc = "wait"
    /\ \E status \in ExitStatuses :
          /\ exit_status' = status
          /\ exit_code' = IF status.some THEN as_u8(status.val) ELSE 0
    /\ command' = "waited"
    /\ pc' = "done"
    /\ UNCHANGED <<usize_bits, cli, kill_outcome, passes, parsed, args, pid, sys, hierarchy_pids,
                   mem, watchdog, kills, stdout, last_cycle_pids>>

Next ==
    \/ ArgsParse \/ Spawn \/ SpawnFails \/ LoopHead \/ ExpandPass \/ Sum
    \/ Kill \/ KillFails \/ Refresh \/ Wait

Spec == Init /\ [][Next]_vars

\* The control flow of main: from every position but the end, and but the
\* inner loop that may repeat, the position that follows
Advance ==
    \/ pc = "parse" /\ pc' \in {"spawn", "done"}
    \/ pc = "spawn" /\ pc' \in {"loop", "done"}
    \/ pc = "loop" /\ pc' \in {"expand", "sum", "wait"}
    \/ pc = "sum" /\ pc' = "check"
    \/ pc = "check" /\ pc' \in {"loop", "wait", "done"}
    \/ pc = "wait" /\ pc' = "done"

\* The program runs on.  main is one thread and at every position before
\* the end a step of Next is possible, so main does not stay at a position
\* for ever: it leaves every position it is at, and in the inner loop it
\* makes the next pass.  (wait() returns: the child ends, killed or not.)
SpecFair == Spec /\ WF_pc(Advance) /\ WF_vars(ExpandPass)

\* ------------------------- one cycle's expansion on its own: SpecExpansion

\* The loop head of a first cycle, as Spawn leaves it, for every snapshot:
\* the amount is "5", usize is 64 bits wide
InitExpansion ==
    /\ usize_bits = 64
    /\ cli \in [amount : {<<"5">>}, virtual_mem : {FALSE}, children : BOOLEAN]
    /\ pc = "loop"
    /\ parsed = parse_byte_amount(cli.amount, usize_bits)
    /\ args = [amount |-> parsed.val, virtual_mem |-> cli.virtual_mem,
               children |-> cli.children]
    /\ command = "spawned"
    /\ pid = ChildPid
    /\ sys \in Snapshots
    /\ hierarchy_pids = {}
    /\ mem = << >>
    /\ watchdog = "Running"
    /\ kills = << >>
    /\ stdout = << >>
    /\ exit_status = None
    /\ exit_code = -1
    /\ last_cycle_pids = {}
    /\ kill_outcome = None
    /\ passes = 0

\* The loop head and the passes of the inner loop, and nothing after them;
\* a pass that is possible is made (main is one thread, nothing blocks it)
SpecExpansion ==
    InitExpansion /\ [][LoopHead \/ ExpandPass]_vars /\ WF_vars(ExpandPass)

\* ----------------------------------- the parser on its own: SpecParser

\* The characters of the short strings: two digits, unit letters, a letter
\* of no unit, white space and the two signs
Chars == {"0", "5", "K", "i", "B", "Q", "b", " ", "-", "+"}

RECURSIVE StringsUpTo(_)
\* every string over Chars of at most n characters
StringsUpTo(n) ==
    IF n = 0 THEN {<< >>}
    ELSE LET shorter == StringsUpTo(n - 1)
         IN  shorter \cup {<<c>> \o t : c \in Chars, t \in {u \in shorter : Len(u) = n - 1}}

\* The amounts written before a unit: 0, 1, 3, 5, the largest amounts whose
\* product with 1000 and with 1024 fits 32 and 64 bits and their successors,
\* 2^32 - 1, 2^32, 10^10, 2^64 - 1 and 2^64
Amounts ==
    LET max32 == <<255, 255, 255, 255>>
        max64 == <<255, 255, 255, 255, 255, 255, 255, 255>>
        edges == {DivSmall(m, d).q : m \in {max32, max64}, d \in {1000, 1024}}
    IN  {<< >>, <<1>>, <<3>>, <<5>>, max32, max64,
         BAdd(max32, <<1>>), BAdd(max64, <<1>>),
         BMul(FromInt(100000), FromInt(100000))}
          \cup edges \cup {BAdd(e, <<1>>) : e \in edges}

\* The prefixes in the order of their powers: kilo is 1, quetta is 10
Prefixes == <<"K", "M", "G", "T", "P", "E", "Z", "Y", "R", "Q">>

\* The unit tokens of the grammar
UnitTokens ==
    {<<"B">>} \cup
    UNION {{<<Prefixes[i]>>, <<Prefixes[i], "B">>, <<Prefixes[i], "i">>,
            <<Prefixes[i], "i", "B">>} : i \in DOMAIN Prefixes}

\* What may follow the amount: nothing, a unit, or letters that are no unit
Suffixes == UnitTokens \cup {<< >>, <<"k", "b">>, <<"i", "B">>, <<"B", "B">>}

\* What may follow the unit
Trailers ==
    {<< >>, <<"1", "2", "3", "4", "2", "4", "4", "h", "e", "l", "l", "o">>,
     <<"5">>, <<" ", "K">>}

\* The strings the parser is run on
ParserInputs ==
    StringsUpTo(MaxLen)
      \cup {to_string(n) \o u \o t : n \in Amounts, u \in Suffixes, t \in Trailers}
      \cup {<<" ", "\t">> \o to_string(n) \o u \o <<" ">> :
                n \in {<<3>>, <<5>>}, u \in Suffixes}

InitParser ==
    /\ usize_bits \in {32, 64}
    /\ cli \in [amount : ParserInputs, virtual_mem : {FALSE}, children : {FALSE}]
    /\ pc = "parse"
    /\ parsed = None
    /\ args = None
    /\ command = "none"
    /\ pid = 0
    /\ sys = << >>
    /\ hierarchy_pids = {}
    /\ mem = << >>
    /\ watchdog = "Idle"
    /\ kills = << >>
    /\ stdout = << >>
    /\ exit_status = None
    /\ exit_code = -1
    /\ last_cycle_pids = {}
    /\ kill_outcome = None
    /\ passes = 0

\* The value parser applied to each input, and nothing after it
SpecParser == InitParser /\ [][ArgsParse]_vars

\* ------------------------------------------------------------ claims

RECURSIVE ExactSum(_, _, _)
\* the sum, as a mathematical integer, of the metric of the members of h
\* that the table s holds
ExactSum(s, h, virtual) ==
    IF h \cap DOMAIN s = {} THEN << >>
    ELSE LET q == CHOOSE x \in h \cap DOMAIN s : TRUE
         IN  BAdd(IF virtual THEN s[q].virtual_memory ELSE s[q].memory,
                  ExactSum(s, h \ {q}, virtual))

\* the summed metric over the hierarchy set of the current cycle
CycleTotal == ExactSum(sys, hierarchy_pids, args.virtual_mem)

\* the tables s and t differ in at most one entry: t is what a refresh may
\* read after s (t is a member of Refreshed(s))
OneEntryApart(s, t) ==
    Cardinality({q \in Pids :
                    \/ (q \in DOMAIN s) # (q \in DOMAIN t)
                    \/ (q \in DOMAIN s /\ q \in DOMAIN t /\ s[q] # t[q])}) <= 1

\* C1: a termination request is issued only in a cycle where the root is in
\* the snapshot and the summed metric over the cycle's hierarchy set is
\* strictly greater than the threshold; in a cycle whose total is at most
\* the threshold nothing is killed or printed, the watchdog stays Running
\* and goes to the next cycle with a refreshed snapshot.
C1_KillOnlyAboveThreshold ==
    [][/\ kills' # kills =>
            /\ pid \in DOMAIN sys
            /\ BLess(args.amount, CycleTotal)
            /\ kills' = Append(kills, pid)
       /\ (pc = "check" /\ BLeq(CycleTotal, args.amount)) =>
            /\ kills' = kills
            /\ stdout' = stdout
            /\ watchdog' = "Running"
            /\ pc' = "loop"
            /\ OneEntryApart(sys, sys')]_vars

\* C1 witness: the child was killed in a cycle whose total is threshold + 1
C1_Witness ==
    /\ watchdog = "Exceeded"
    /\ kills = <<pid>>
    /\ CycleTotal = BAdd(args.amount, <<1>>)

\* C2 (as claimed): whenever the root is present and the 64-bit total of
\* the cycle is greater than the threshold, the loop goes to Exceeded in
\* that cycle, whatever the width of usize.
C2_FullWidthBreach ==
    [][(pc = "check" /\ pid \in DOMAIN sys /\ BLess(args.amount, mem))
          => watchdog' = "Exceeded"]_vars

\* C3: in a cycle where the root is not in the snapshot the loop ends in
\* ChildGone at once: no expansion, no sum, no termination request and no
\* message, whatever else the snapshot holds.
C3_RootAbsentEndsChildGone ==
    [][(pc = "loop" /\ pid \notin DOMAIN sys) =>
          /\ watchdog' = "ChildGone"
          /\ pc' = "wait"
          /\ hierarchy_pids' = {}
          /\ mem' = << >>
          /\ kills' = << >>
          /\ stdout' = << >>]_vars

\* C3 witness: the loop ended in ChildGone while a child of the root is
\* still in the snapshot with a metric above the threshold
C3_Witness ==
    /\ watchdog = "ChildGone"
    /\ pc = "wait"
    /\ \E q \in DOMAIN sys :
          /\ sys[q].parent = Some(pid)
          /\ BLess(args.amount, metric(sys[q], args.virtual_mem))

\* C4 (as claimed): when the child reports an exit code c, the program's
\* own exit code is c, for every 32-bit c.
C4_ExitCodeRelayed ==
    (pc = "done" /\ command = "waited" /\ exit_status.some)
        => exit_code = exit_status.val

\* the (base, power) of a unit token by the rule of the grammar: "B" is one
\* byte, a prefix with "i" has base 1024 and one without has base 1000, and
\* the power is the place of the prefix, kilo 1 to quetta 10
UnitByRule(u) ==
    IF u = <<"B">> THEN [base |-> 1, pow |-> 1]
    ELSE [base |-> IF Len(u) >= 2 /\ u[2] = "i" THEN 1024 ELSE 1000,
          pow |-> CHOOSE i \in DOMAIN Prefixes : Prefixes[i] = u[1]]

\* str(n) + unitToken for every amount and unit token, with n and the
\* multiplier base^power
UnitCases ==
    {[input |-> to_string(n) \o u, n |-> n,
      multiplier |-> BPow(FromInt(UnitByRule(u).base), UnitByRule(u).pow)] :
        n \in Amounts, u \in UnitTokens}

C6_NoSpawnOnParseError ==
    /\ (command # "none" \/ pid # 0 \/ watchdog # "Idle" \/ pc \notin {"parse", "done"})
          => (parsed.ok /\ args.amount = parsed.val)
    /\ (pc # "parse" /\ ~parsed.ok) =>
          /\ pc = "done"
          /\ command = "none"
          /\ pid = 0
          /\ watchdog = "Idle"
          /\ sys = << >>
          /\ kills = << >>
          /\ exit_code # 0

\* C6 witness: the run ended on UnitOverflow without a child
C6_Witness ==
    /\ pc = "done"
    /\ command = "none"
    /\ parsed = ErrUnitOverflow(<<"Q">>)

RECURSIVE KthAncestor(_, _, _)
\* the process k parent links above q in the table s, if the links lead
\* that far through entries of s
KthAncestor(s, q, k) ==
    IF k = 0 THEN Some(q)
    ELSE LET a == KthAncestor(s, q, k - 1)
         IN  IF a.some /\ a.val \in DOMAIN s THEN s[a.val].parent ELSE None

\* the root and every entry of s from which parent links lead to the root
TreeOf(s, root) ==
    {root} \cup {q \in DOMAIN s :
                    \E k \in 1..Cardinality(DOMAIN s) : KthAncestor(s, q, k) = Some(root)}

\* the hierarchy set a cycle is to use
ExpectedHierarchy == IF args.children THEN TreeOf(sys, pid) ELSE {pid}

\* C7: with descendants enabled and the root present, the hierarchy set of
\* the cycle is the root plus exactly the entries from which parent links
\* lead to the root, for every iteration order of the table, with cycles
\* and with parents that are no key of the table.
C7_HierarchyIsTransitiveClosure ==
    ((pc \in {"sum", "check"} \/ watchdog = "Exceeded") /\ args.children)
        => hierarchy_pids = TreeOf(sys, pid)

\* C7 witness: the parent links form the cycle 1 -> 3 -> 2 -> 1 through the
\* root, and the expansion found all three
C7_Witness ==
    /\ pc = "sum"
    /\ args.children
    /\ DOMAIN sys = {1, 2, 3}
    /\ sys[1].parent = Some(3)
    /\ sys[3].parent = Some(2)
    /\ sys[2].parent = Some(1)
    /\ hierarchy_pids = {1, 2, 3}

\* C8: the total of a cycle is the root's metric alone with descendants
\* disabled, and the root's plus that of all its transitive descendants
\* with descendants enabled; so when the root alone is within the
\* threshold, a breach happens only with descendants enabled.
C8_TotalByDescendantsFlag ==
    /\ pc = "check" =>
          mem = ExactSum(sys, IF args.children THEN TreeOf(sys, pid) ELSE {pid},
                         args.virtual_mem)
    /\ (watchdog = "Exceeded" /\ BLeq(metric(sys[pid], args.virtual_mem), args.amount))
          => args.children

\* C8 witness: a root of 2 bytes with two children of 2 bytes each, the
\* threshold 5, descendants enabled: a breach at 6
C8_Witness ==
    /\ watchdog = "Exceeded"
    /\ args.children
    /\ ~args.virtual_mem
    /\ DOMAIN sys = {1, 2, 3}
    /\ sys[2].parent = Some(pid) /\ sys[3].parent = Some(pid)
    /\ \A q \in DOMAIN sys : sys[q].memory = <<2>>
    /\ args.amount = <<5>>
    /\ mem = <<6>>

\* C9: the hierarchy set of a cycle depends on the root, the cycle's
\* snapshot and the descendants flag only: it is empty when a cycle starts,
\* it never holds an id outside the root's tree in the current snapshot,
\* and the total is the sum over exactly that set.
C9_HierarchyRebuiltEachCycle ==
    /\ pc = "loop" => (hierarchy_pids = {} /\ mem = << >>)
    /\ pc \in {"expand", "sum", "check"} =>
          (pid \in hierarchy_pids /\ hierarchy_pids \subseteq ExpectedHierarchy)
    /\ pc = "check" =>
          (hierarchy_pids = ExpectedHierarchy /\ mem = CycleTotal)

\* C9 witness: a new cycle starts with the root present and a descendant of
\* the previous cycle that is missing from, or no longer linked in, the
\* new snapshot
C9_Witness ==
    /\ pc = "loop"
    /\ args.children
    /\ pid \in DOMAIN sys
    /\ \E q \in last_cycle_pids : q \notin TreeOf(sys, pid)

\* C10 (as claimed): the message is printed once if the loop ends in
\* Exceeded and never otherwise, and is the line
\* "memory usage = <mem> bytes, higher than limit of <limit>, killed."
C10_MessageFormAsClaimed ==
    /\ watchdog = "Exceeded" =>
          stdout = << <<"memory usage = ", to_string(mem),
                        " bytes, higher than limit of ", to_string(parsed.val),
                        ", killed.">> >>
    /\ watchdog # "Exceeded" => stdout = << >>

\* C10 (amended): the same, the line being
\* "memlimit: memory usage = <mem> bytes, higher than limit of <limit>, killed."
C10_MessageOnceWithPrefix ==
    /\ watchdog = "Exceeded" =>
          /\ stdout = << <<"memlimit: memory usage = ", to_string(mem),
                           " bytes, higher than limit of ", to_string(parsed.val),
                           ", killed.">> >>
          /\ mem = CycleTotal
    /\ watchdog # "Exceeded" => stdout = << >>

\* C10 witness: a run that ended in Exceeded is over, one line printed
C10_Witness ==
    /\ pc = "done"
    /\ watchdog = "Exceeded"
    /\ Len(stdout) = 1

\* C11 (as claimed): when, in a breaching cycle, the termination request
\* fails because the child has already exited, nothing is aborted: the
\* message is printed, the loop has ended in Exceeded, and the program goes
\* on to wait for the child and ends with the child's code.
C11_FailedKillTreatedAsSuccess ==
    (/\ kill_outcome.some
     /\ kill_outcome.val.already_exited
     /\ kill_outcome.val.result = "Err") =>
        /\ watchdog = "Exceeded"
        /\ Len(stdout) = 1
        /\ pc \in {"wait", "done"}
        /\ pc = "done" => command = "waited"

\* C12: at most one termination request is issued in a run, and it goes to
\* the root child: no descendant and no other entry of the snapshot is
\* ever a target, also when the root alone is within the threshold.
C12_OnlyTheRootIsKilledOnce ==
    /\ Len(kills) <= 1
    /\ \A i \in DOMAIN kills : kills[i] = ChildPid /\ kills[i] = pid
    /\ pc \in {"parse", "spawn", "loop", "expand", "sum", "check"} => kills = << >>

\* C12 witness: the root alone is within the threshold, its descendants
\* bring the total above it, and the one request went to the root
C12_Witness ==
    /\ watchdog = "Exceeded"
    /\ args.children
    /\ BLeq(metric(sys[pid], args.virtual_mem), args.amount)
    /\ hierarchy_pids = {1, 2, 3}
    /\ kills = <<pid>>

\* C13: the total of a cycle is the sum over the members of the hierarchy
\* set, each counted once, of the virtual size when the virtual flag is
\* set and of the resident size otherwise; the other size adds nothing.
C13_TotalIsSelectedMetricOncePerMember ==
    pc = "check" =>
        /\ hierarchy_pids \subseteq DOMAIN sys
        /\ args.virtual_mem =>
              mem = ExactSum([q \in DOMAIN sys |-> [virtual_memory |-> sys[q].virtual_memory,
                                                    memory |-> << >>]],
                             hierarchy_pids, args.virtual_mem)
        /\ ~args.virtual_mem =>
              mem = ExactSum([q \in DOMAIN sys |-> [virtual_memory |-> << >>,
                                                    memory |-> sys[q].memory]],
                             hierarchy_pids, args.virtual_mem)

\* C13 witness: the chain 1 <- 2 <- 3 took three passes, process 2 being
\* found again in the second and third, and the virtual total is 3 * 3
C13_Witness ==
    /\ pc = "check"
    /\ args.virtual_mem
    /\ passes = 3
    /\ hierarchy_pids = {1, 2, 3}
    /\ sys[2].parent = Some(1) /\ sys[3].parent = Some(2)
    /\ \A q \in DOMAIN sys : sys[q].virtual_memory = <<3>>
    /\ mem = <<9>>

\* the input without the white space before and after it
Trimmed(s) ==
    LET visible == {i \in DOMAIN s : s[i] \notin WhiteSpace}
    IN  IF visible = {} THEN << >>
        ELSE SubSeq(s, CHOOSE i \in visible : \A j \in visible : i <= j,
                       CHOOSE i \in visible : \A j \in visible : j <= i)

\* the places of t where a run starts: the first character, and every
\* character that is alphabetic when the one before it is not, or the reverse
RunStarts(t) ==
    {i \in DOMAIN t : i = 1 \/ is_alphabetic(t[i]) # is_alphabetic(t[i - 1])}

RunCount(t) == Cardinality(RunStarts(t))

\* the place where the n-th run of t starts
NthStart(t, n) ==
    CHOOSE i \in RunStarts(t) : Cardinality({j \in RunStarts(t) : j <= i}) = n

\* the n-th run of t
Run(t, n) ==
    SubSeq(t, NthStart(t, n),
           IF n = RunCount(t) THEN Len(t) ELSE NthStart(t, n + 1) - 1)

\* a run that is decimal digits only, at least one
IsDigits(run) == run # << >> /\ \A i \in DOMAIN run : run[i] \in DigitChars

\* a run that is decimal digits after an optional plus sign
IsPlusDigits(run) ==
    IsDigits(run) \/ (run # << >> /\ Head(run) = "+" /\ IsDigits(Tail(run)))

RECURSIVE ExactDecimal(_)
\* the value, as a mathematical integer, of a run of decimal digits
ExactDecimal(digits) ==
    IF digits = << >> THEN << >>
    ELSE BAdd(BMul(ExactDecimal(SubSeq(digits, 1, Len(digits) - 1)), <<10>>),
              FromInt(to_digit(digits[Len(digits)])))

\* the value of a run that IsPlusDigits
AmountOf(run) == ExactDecimal(IF Head(run) = "+" THEN Tail(run) ELSE run)

\* base^power of a unit token, as a mathematical integer
MultiplierOf(u) == BPow(FromInt(UnitByRule(u).base), UnitByRule(u).pow)

\* the input parsed: its runs after trimming, for inputs whose first run is
\* an amount that fits the target width
AmountFirst(t) ==
    /\ t # << >>
    /\ IsPlusDigits(Run(t, 1))
    /\ Fits(AmountOf(Run(t, 1)), usize_bits)

\* C14: for an input whose runs are a valid amount, a unit and at least one
\* more run, the errors come in the order of the steps: UnknownPrefix when
\* the unit is not in the table, else UnitOverflow when base^power does not
\* fit, else AmountOverflow when the product does not fit, else
\* UnexpectedEnd carrying all the text after the unit in its order.
C14_ErrorsInStepOrder ==
    LET t == Trimmed(cli.amount)
        n == AmountOf(Run(t, 1))
        u == Run(t, 2)
    IN  (pc # "parse" /\ AmountFirst(t) /\ RunCount(t) >= 3) =>
            parsed =
                IF u \notin UnitTokens THEN ErrUnknownPrefix(u)
                ELSE IF ~Fits(MultiplierOf(u), usize_bits) THEN ErrUnitOverflow(u)
                ELSE IF ~Fits(BMul(n, MultiplierOf(u)), usize_bits)
                     THEN ErrAmountOverflow(n, u)
                ELSE ErrUnexpectedEnd(SubSeq(t, NthStart(t, 3), Len(t)))

\* C14 witness: "3GiB1234244hello" gave UnexpectedEnd("1234244hello")
C14_Witness ==
    /\ pc = "done"
    /\ cli.amount = <<"3", "G", "i", "B", "1", "2", "3", "4", "2", "4", "4",
                      "h", "e", "l", "l", "o">>
    /\ parsed = ErrUnexpectedEnd(<<"1", "2", "3", "4", "2", "4", "4",
                                   "h", "e", "l", "l", "o">>)

C20_SecondRunIsAlphabetic ==
    LET groups == chunk_by(trim(cli.amount))
    IN  pc # "parse" =>
          /\ ~parsed.ok => parsed.err # "panic"
          /\ \A i \in DOMAIN groups : groups[i].group # << >>
          /\ \A i \in 1..(Len(groups) - 1) : groups[i].is_alpha # groups[i + 1].is_alpha
          /\ (Len(groups) >= 2 /\ ~groups[1].is_alpha) => groups[2].is_alpha

\* C20 witness: "5K5" has a second and a third run, and the parser went
\* past the assert! to the check of the rest
C20_Witness ==
    /\ pc = "done"
    /\ cli.amount = <<"5", "K", "5">>
    /\ Len(chunk_by(trim(cli.amount))) = 3
    /\ parsed = ErrUnexpectedEnd(<<"5">>)

\* C17: the inner expansion of a cycle ends for every snapshot, parent
\* links in a cycle included: a pass never removes an id, the expansion
\* stops with the first pass that adds none and goes on after any other,
\* and a cycle makes at most (entries of the snapshot + 1) passes.
C17_ExpansionTerminates ==
    /\ [](passes <= Cardinality(DOMAIN sys) + 1)
    /\ [][pc = "expand" =>
            /\ hierarchy_pids \subseteq hierarchy_pids'
            /\ passes' = passes + 1
            /\ pc' = IF hierarchy_pids' = hierarchy_pids THEN "sum" ELSE "expand"]_vars
    /\ (pc = "expand") ~> (pc = "sum")

\* C17 witness: the parent links form the cycle 1 -> 3 -> 2 -> 1 and the
\* expansion has ended after three passes, the last adding nothing
C17_Witness ==
    /\ pc = "sum"
    /\ passes = 3
    /\ DOMAIN sys = {1, 2, 3}
    /\ sys[1].parent = Some(3) /\ sys[3].parent = Some(2) /\ sys[2].parent = Some(1)
    /\ hierarchy_pids = DOMAIN sys

\* C18 (as claimed): a snapshot without the root leads to ChildGone and a
\* snapshot whose observed total is above the threshold leads to Exceeded;
\* the loop is left in these two ways only; and once the loop is in
\* ChildGone or Exceeded the snapshot is not refreshed, no termination
\* request is issued and the watchdog does not return to Running.
C18_TwoFinalWaysOut ==
    /\ (pc = "loop" /\ pid \notin DOMAIN sys) ~> (watchdog = "ChildGone")
    /\ (pc = "check" /\ pid \in DOMAIN sys /\ BLess(args.amount, mem))
          ~> (watchdog = "Exceeded")
    /\ [][(watchdog = "Running" /\ pc' \in {"wait", "done"})
             => watchdog' \in {"ChildGone", "Exceeded"}]_vars
    /\ [][(watchdog = "ChildGone" \/ watchdog = "Exceeded") =>
            (sys' = sys /\ kills' = kills /\ watchdog' = watchdog
                /\ pc' \in {"wait", "done"})]_vars

\* C19: when wait() reports no exit code for the child, the program's own
\* exit code is 0, after a breach as after the child's own end.
C19_NoCodeGivesSuccess ==
    (pc = "done" /\ command = "waited" /\ ~exit_status.some) => exit_code = 0

\* C19 witness: the child was killed after a breach, ended without a code,
\* and the program ended with 0
C19_Witness ==
    /\ pc = "done"
    /\ watchdog = "Exceeded"
    /\ kill_outcome = Some([already_exited |-> FALSE, result |-> "Ok"])
    /\ exit_status = None
    /\ exit_code = 0

====
